---- MODULE Spec2Model ----
(***************************************************************************)
(* Process lifecycle, cooperative FIFO scheduling and the mmap/munmap      *)
(* syscalls of the rCore teaching kernel (os/src/task/mod.rs and           *)
(* os/src/syscall/process.rs).                                             *)
(*                                                                         *)
(* A TCB is identified by its pid: a TCB owns its PidHandle for its whole  *)
(* life, so live TCBs and allocated pids correspond one to one.  `alive`   *)
(* is the set of TCBs that exist (some Arc still refers to them).          *)
(* Option<T> is modelled as a sequence of length 0 (None) or 1 (Some).     *)
(***************************************************************************)
EXTENDS Integers, Sequences, FiniteSets, TLC

\* ---------------------------------------------------------------- bounds
MaxPid == 2
MaxCode == 1
MaxVpn == 2
MaxAreas == 1
MaxLenPages == 3
MaxA0 == 1
MaxMaps == 2
MaxCalls == 2
MaxTime == 2

\* ------------------------------------------------------ program constants
IDLE_PID == 0
PAGE_SIZE == 4096
PORT_MASK == 7

Pids == 0..MaxPid
ExitCodes == 0..MaxCode
INITPROC == IDLE_PID

TaskStatus == {"UnInit", "Ready", "Running", "Zombie"}

VARIABLES
    alive,        \* pids of the TCBs that exist
    task_status,  \* TaskControlBlockInner.task_status
    exit_code,    \* TaskControlBlockInner.exit_code
    parent,       \* TaskControlBlockInner.parent (Option<Weak<TCB>>)
    children,     \* TaskControlBlockInner.children (Vec<Arc<TCB>>)
    x10,          \* trap_cx.x[10], the saved user a0, as fork leaves it in a
                  \* new TCB; the results of syscalls are recorded in `last`
    resume,       \* where the saved task_cx returns to: "trap_return",
                  \* "suspend" (inside suspend_current_and_run_next) or
                  \* "exit" (inside exit_current_and_run_next)
    memory_set,   \* TaskControlBlockInner.memory_set: areas and page table
    ready_queue,  \* TASK_MANAGER.ready_queue
    current,      \* PROCESSOR.current (Option<Arc<TCB>>)
    panic,        \* "none" while the kernel runs, else the panic that halted it
    last,         \* the syscall or scheduler step just performed and its result
    adopted,      \* history: the pids whose latest TCB an exit moved to INITPROC
    upc,          \* user program position of each task (the workloads)
    log,          \* dispatch order recorded for the round-robin workload
    task_info,    \* TaskControlBlockInner.task_info: syscall_times, time, status
    start_time,   \* TaskControlBlockInner.start_time
    end_time,     \* TaskControlBlockInner.end_time
    timer,        \* the millisecond timer: the value get_time_ms read last
    borrowed      \* the TCBs whose inner is exclusively borrowed (UPSafeCell)
                  \* at the end of the step, when control has been handed on

vars == <<alive, task_status, exit_code, parent, children, x10, resume,
          memory_set, ready_queue, current, panic, last, adopted, upc, log,
          task_info, start_time, end_time, timer, borrowed>>

\* the accounting state, which only the syscall dispatch path touches
accounting == <<task_info, start_time, end_time, timer>>

\* ------------------------------------------------------------- helpers
Range(s) == {s[i] : i \in DOMAIN s}

IsSome(o) == Len(o) = 1
Unwrap(o) == o[1]

\* number of elements of sequence s equal to t
RECURSIVE Occurrences(_, _)
Occurrences(s, t) ==
    IF s = <<>> THEN 0
    ELSE (IF Head(s) = t THEN 1 ELSE 0) + Occurrences(Tail(s), t)

RECURSIVE SumOver(_, _, _)
SumOver(S, f, t) ==
    IF S = {} THEN 0
    ELSE LET p == CHOOSE q \in S : TRUE
         IN  Occurrences(f[p], t) + SumOver(S \ {p}, f, t)

\* variant: the whole list is dropped instead of one element
RemoveAt_all(s, i) == <<>>

\* Vec::remove(idx)
RemoveAt(s, i) == SubSeq(s, 1, i - 1) \o SubSeq(s, i + 1, Len(s))

EmptyMemorySet == [areas |-> <<>>, page_table |-> [v \in 0..MaxVpn |-> 0]]

NoEvent == [op |-> "none", task |-> <<>>, arg |-> <<>>, ret |-> <<>>, out |-> <<>>]
Event(op, t, arg, ret, out) ==
    [op |-> op, task |-> <<t>>, arg |-> arg, ret |-> ret, out |-> out]

\* Arc::strong_count of TCB t: the ready queue, the Processor's current slot,
\* every children list of a live TCB, and the INITPROC static.
StrongCount(t) ==
    Occurrences(ready_queue, t) + Occurrences(current, t)
    + SumOver(alive, children, t)
    + (IF t = INITPROC THEN 1 ELSE 0)


\* ------------------------------------------------ manager and processor
\* TaskManager::add: push to the tail of the ready queue
add_task(q, t) == Append(q, t)

\* Processor::take_current: the current slot is emptied
take_current_task == <<>>

\* TaskControlBlock::getpid (TCBs are identified by pid)
getpid(t) == t

\* run_tasks: one turn of the idle loop.  With no current task it fetches the
\* head of the ready queue, marks it Running and switches into its saved
\* task context.  A task whose context was saved inside
\* exit_current_and_run_next returns into sys_exit, which panics.
run_tasks ==
    /\ panic = "none"
    /\ current = <<>>
    /\ ready_queue # <<>>
    /\ LET t == Head(ready_queue) IN
        /\ ready_queue' = Tail(ready_queue)
        /\ task_status' = [task_status EXCEPT ![t] = "Running"]
        /\ current' = <<t>>
        \* task.inner_exclusive_access() finds the cell free, or panics
        /\ panic' = IF t \in borrowed THEN "already_borrowed"
                    ELSE IF resume[t] = "exit" THEN "unreachable_in_sys_exit"
                    ELSE "none"
        /\ resume' = [resume EXCEPT ![t] = "trap_return"]
        /\ last' = Event("run", t, <<>>, <<>>, <<>>)
    /\ UNCHANGED <<alive, exit_code, parent, children, x10, memory_set, adopted,
                   borrowed>>

\* ---------------------------------------------------------------- yield
\* variant: the suspended task keeps its Running status
SuspendedStatus_running(task) == "Running"

\* the status suspend_current_and_run_next gives the suspended task
\* (the action itself: take the current task, mark it Ready, push it back on
\* the ready queue and switch to the idle loop)
SuspendedStatus(task) == "Ready"

\* variant: task_inner is still borrowed when schedule is called
HeldAtSuspend_kept(task) == {task}

\* drop(task_inner) before add_task and schedule: nothing stays borrowed
HeldAtSuspend(task) == {}

\* variant: the suspended task is not pushed back
QueueAfterSuspend_dropped(task) == ready_queue

\* variant: the suspended task is put at the head of the ready queue
QueueAfterSuspend_front(task) == <<task>> \o ready_queue

\* add_task(task) of suspend_current_and_run_next: pushed back at the tail
QueueAfterSuspend(task) == add_task(ready_queue, task)

suspend_current_and_run_next ==
    LET task == Unwrap(current) IN
    /\ current' = take_current_task
    /\ task_status' = [task_status EXCEPT ![task] = SuspendedStatus(task)]
    /\ ready_queue' = QueueAfterSuspend(task)
    /\ resume' = [resume EXCEPT ![task] = "suspend"]
    /\ borrowed' = borrowed \cup HeldAtSuspend(task)

\* sys_yield: suspends the caller; 0 is its result once it runs again.
sys_yield ==
    /\ panic = "none"
    /\ IsSome(current)
    /\ suspend_current_and_run_next
    /\ last' = Event("yield", Unwrap(current), <<>>, <<0>>, <<>>)
    /\ UNCHANGED <<alive, exit_code, parent, children, memory_set, panic, adopted, x10>>

\* the forced yield of the timer-interrupt path: the same transition, with
\* the user registers left as they were
timer_interrupt ==
    /\ panic = "none"
    /\ IsSome(current)
    /\ suspend_current_and_run_next
    /\ last' = Event("timer", Unwrap(current), <<>>, <<>>, <<>>)
    /\ UNCHANGED <<alive, exit_code, parent, children, memory_set, panic, adopted, x10>>

\* ----------------------------------------------------------------- exit
\* variant: the children are not pushed on INITPROC's list
ReparentedChildren_lost(task) == children[INITPROC]

\* the children of the exiting task, pushed on INITPROC's list in order
ReparentedChildren(task) == children[INITPROC] \o children[task]

\* variant: the children keep their old parent back-reference
ParentAfterExit_kept(task, t) == parent[t]

\* the parent back-reference of t after `task` has exited
ParentAfterExit(task, t) ==
    IF t \in Range(children[task]) THEN <<INITPROC>> ELSE parent[t]

\* variant: the exiting task's list is not cleared
ChildrenAfterClear_kept(task) == children[task]

\* inner.children.clear(): the exiting task's own list
ChildrenAfterClear(task) == <<>>

\* recycle_data_pages: every framed area and its translations are released
recycle_data_pages(ms) == EmptyMemorySet

\* variant: the exiting task is pushed back like a yielding one
QueueAfterExit_requeued(task) == add_task(ready_queue, task)

\* the ready queue after exit: the exiting task is not pushed back
QueueAfterExit(task) == ready_queue

\* drop(inner) before schedule, the block of initproc_inner and the
\* temporary borrow of each child having ended: nothing stays borrowed
HeldAtExit(task) == {}

\* the cells exit_current_and_run_next borrows while it holds others: the
\* exiting task's, then INITPROC's, then each child's in turn
ExitBorrowConflict(task) ==
    \/ task \in borrowed
    \/ INITPROC \in borrowed \cup {task}
    \/ \E c \in Range(children[task]) : c \in borrowed \cup {task, INITPROC}

\* exit_current_and_run_next: the idle process exiting halts the kernel;
\* otherwise the task becomes a Zombie holding exit_code, its children move
\* to INITPROC, its address space is recycled and control goes to the idle
\* loop without the task being re-enqueued.
exit_current_and_run_next(code) ==
    LET task == Unwrap(current)
        pid  == getpid(task)
    IN
    /\ current' = take_current_task
    /\ IF pid = IDLE_PID
       THEN /\ panic' = "all_applications_completed"
            /\ UNCHANGED <<alive, task_status, exit_code, parent, children,
                           resume, memory_set, ready_queue, borrowed>>
       ELSE /\ task_status' = [task_status EXCEPT ![task] = "Zombie"]
            /\ exit_code' = [exit_code EXCEPT ![task] = code]
            \* inner_exclusive_access on a cell that is already borrowed panics
            /\ panic' = IF ExitBorrowConflict(task)
                        THEN "already_borrowed" ELSE "none"
            /\ borrowed' = borrowed \cup HeldAtExit(task)
            /\ parent' = [t \in Pids |-> ParentAfterExit(task, t)]
            /\ children' = [children EXCEPT ![INITPROC] = ReparentedChildren(task),
                                            ![task] = ChildrenAfterClear(task)]
            /\ memory_set' = [memory_set EXCEPT ![task] = recycle_data_pages(@)]
            /\ resume' = [resume EXCEPT ![task] = "exit"]
            /\ ready_queue' = QueueAfterExit(task)
            /\ UNCHANGED alive

sys_exit(code) ==
    /\ panic = "none"
    /\ IsSome(current)
    /\ exit_current_and_run_next(code)
    /\ last' = Event("exit", Unwrap(current), <<code>>, <<>>, children[Unwrap(current)])
    /\ adopted' = IF Unwrap(current) = IDLE_PID THEN adopted
                  ELSE adopted \cup Range(children[Unwrap(current)])
    /\ UNCHANGED x10

\* ----------------------------------------------------------------- fork
\* the values of a0 a caller may hold when it traps into sys_fork
UserA0 == 0..MaxA0

\* variant: the child keeps the a0 copied from its parent's trap context
ChildA0_copied(a0) == a0

\* trap_cx.x[10] of the child as sys_fork leaves it, a0 being the value
\* copied from the caller's trap context
ChildA0(a0) == 0

\* the caller's children list after TaskControlBlock::fork
ChildrenAfterFork(task, new_task) == Append(children[task], new_task)

\* sys_fork: TaskControlBlock::fork builds the child (new pid, copied address
\* space and trap context, status Ready, linked to the caller), then the
\* child's a0 is forced to 0, the child is enqueued and its pid returned.
sys_fork ==
    /\ panic = "none"
    /\ IsSome(current)
    /\ LET task == Unwrap(current) IN
       \E new_task \in Pids \ alive, a0 \in UserA0 :
        LET new_pid == getpid(new_task) IN
        /\ alive' = alive \cup {new_task}
        /\ task_status' = [task_status EXCEPT ![new_task] = "Ready"]
        /\ exit_code' = [exit_code EXCEPT ![new_task] = 0]
        /\ parent' = [parent EXCEPT ![new_task] = <<task>>]
        /\ children' = [children EXCEPT ![task] = ChildrenAfterFork(task, new_task),
                                        ![new_task] = <<>>]
        /\ memory_set' = [memory_set EXCEPT ![new_task] = memory_set[task]]
        /\ resume' = [resume EXCEPT ![new_task] = "trap_return"]
        /\ x10' = [x10 EXCEPT ![new_task] = ChildA0(a0)]
        /\ ready_queue' = add_task(ready_queue, new_task)
        /\ last' = Event("fork", task, <<>>, <<new_pid>>, <<>>)
        /\ adopted' = adopted \ {new_task}
    /\ UNCHANGED <<current, panic, borrowed>>

\* -------------------------------------------------------------- waitpid
\* the closure of both searches: pid == -1 || pid as usize == p.getpid()
Matches(pid, p) == pid = -1 \/ pid = getpid(p)

HasMatchingChild(task, pid) ==
    \E i \in DOMAIN children[task] : Matches(pid, children[task][i])

is_zombie(p) == task_status[p] = "Zombie"

\* indices of the matching Zombie children of task
ZombieIdx(task, pid) ==
    {i \in DOMAIN children[task] :
        is_zombie(children[task][i]) /\ Matches(pid, children[task][i])}

\* variant: the last matching Zombie child is taken instead of the first
FindZombie_last(task, pid) ==
    IF ZombieIdx(task, pid) = {} THEN 0
    ELSE CHOOSE i \in ZombieIdx(task, pid) : \A j \in ZombieIdx(task, pid) : i >= j

\* iter().enumerate().find(..): the first such index, 0 for None
FindZombie(task, pid) ==
    IF ZombieIdx(task, pid) = {} THEN 0
    ELSE CHOOSE i \in ZombieIdx(task, pid) : \A j \in ZombieIdx(task, pid) : i <= j

\* the value written through exit_code_ptr
ReapedExitCode(child) == exit_code[child]

\* the children whose inner the search for a Zombie borrows in turn, while
\* the caller's inner is held: all up to the one found, all when none is
WaitpidVisited(task, pid) ==
    IF FindZombie(task, pid) = 0 THEN Range(children[task])
    ELSE {children[task][i] : i \in 1..FindZombie(task, pid)}

WaitpidBorrowConflict(task, pid) ==
    \/ task \in borrowed
    \/ /\ HasMatchingChild(task, pid)
       /\ \E c \in WaitpidVisited(task, pid) : c \in borrowed \cup {task}

\* sys_waitpid: -1 with no matching child, -2 with no matching Zombie child;
\* otherwise the first matching Zombie child is removed from the children
\* list, asserted to be referenced from nowhere else, its exit code written
\* to the caller and its pid returned; the child is then dropped.
sys_waitpid(pid) ==
    /\ panic = "none"
    /\ IsSome(current)
    /\ LET task == Unwrap(current)
           idx  == FindZombie(task, pid)
       IN
       IF WaitpidBorrowConflict(task, pid)
       THEN /\ panic' = "already_borrowed"
            /\ last' = Event("waitpid", task, <<pid>>, <<>>, <<>>)
            /\ UNCHANGED <<alive, task_status, exit_code, parent, children,
                           resume, memory_set, x10, adopted>>
       ELSE IF ~HasMatchingChild(task, pid)
       THEN /\ UNCHANGED x10
            /\ last' = Event("waitpid", task, <<pid>>, <<-1>>, <<>>)
            /\ UNCHANGED <<alive, task_status, exit_code, parent, children,
                           resume, memory_set, panic, adopted>>
       ELSE IF idx = 0
       THEN /\ UNCHANGED x10
            /\ last' = Event("waitpid", task, <<pid>>, <<-2>>, <<>>)
            /\ UNCHANGED <<alive, task_status, exit_code, parent, children,
                           resume, memory_set, panic, adopted>>
       ELSE LET child == children[task][idx] IN
            /\ children' = [children EXCEPT ![task] = RemoveAt(@, idx)]
            /\ IF StrongCount(child) = 1
               THEN \* the last reference is dropped with the local `child`
                    /\ alive' = alive \ {child}
                    /\ task_status' = [task_status EXCEPT ![child] = "UnInit"]
                    /\ exit_code' = [exit_code EXCEPT ![child] = 0]
                    /\ parent' = [parent EXCEPT ![child] = <<>>]
                    /\ resume' = [resume EXCEPT ![child] = "trap_return"]
                    /\ memory_set' = [memory_set EXCEPT ![child] = EmptyMemorySet]
                    /\ x10' = [x10 EXCEPT ![child] = 0]
                    /\ last' = Event("waitpid", task, <<pid>>, <<getpid(child)>>,
                                     <<ReapedExitCode(child)>>)
                    /\ panic' = "none"
                    /\ UNCHANGED adopted
               ELSE /\ panic' = "assert_strong_count"
                    /\ last' = Event("waitpid", task, <<pid>>, <<>>, <<>>)
                    /\ UNCHANGED <<alive, task_status, exit_code, parent,
                                   resume, memory_set, x10, adopted>>
    /\ UNCHANGED <<ready_queue, current, borrowed>>

\* ------------------------------------------------------ address space
\* bitwise operations on non-negative integers
RECURSIVE BitAnd(_, _)
BitAnd(a, b) ==
    IF a = 0 \/ b = 0 THEN 0
    ELSE (a % 2) * (b % 2) + 2 * BitAnd(a \div 2, b \div 2)

RECURSIVE BitOr(_, _)
BitOr(a, b) ==
    IF a = 0 THEN b
    ELSE IF b = 0 THEN a
    ELSE (IF a % 2 = 1 \/ b % 2 = 1 THEN 1 ELSE 0) + 2 * BitOr(a \div 2, b \div 2)

\* a & !mask, for the masks used here (mask + 1 a power of two)
ClearLow(a, mask) == a - BitAnd(a, mask)

\* VirtAddr::floor, VirtAddr::ceil, and start & 0xfff
floor(va) == va \div PAGE_SIZE
ceil(va) == (va + PAGE_SIZE - 1) \div PAGE_SIZE
page_offset(va) == BitAnd(va, PAGE_SIZE - 1)

\* PageTable::translate: the entry of vpn, absent when it is not valid
translate(ms, vpn) ==
    IF ms.page_table[vpn] = 0 THEN <<>> ELSE <<ms.page_table[vpn]>>

\* MemorySet::insert_framed_area: one frame per covered page, mapped with
\* `permission`, and a new MapArea recorded; 0 on success.  A range that
\* covers a page which already has a leaf is refused with -1.
MemorySet_insert_framed_area(ms, start_va, end_va, permission) ==
    LET s == floor(start_va)
        e == ceil(end_va)
        taken == {v \in s..(e - 1) : ms.page_table[v] # 0}
        pt == [v \in 0..MaxVpn |->
                 IF v >= s /\ v < e THEN permission ELSE ms.page_table[v]]
    IN  IF taken = {}
        THEN [ms  |-> [areas |-> Append(ms.areas, [start |-> s, end |-> e]),
                       page_table |-> pt],
              ret |-> 0]
        ELSE [ms |-> ms, ret |-> -1]

\* the permission bits the task module builds: prot | (U | V)
FramedPermission(prot) == BitOr(prot, BitOr(16, 1))

\* insert_framed_area of the task module, for the current task
insert_framed_area(ms, start_va, end_va, prot) ==
    MemorySet_insert_framed_area(ms, start_va, end_va, FramedPermission(prot))

\* variant: the port bits are not shifted past the valid bit
MmapPort_unshifted(port) == BitOr(BitOr(BitAnd(port, 15), 16), 1)

\* the port bits as sys_mmap hands them on: (port << 1) & 0xf | 0x10 | 0x1
MmapPort(port) == BitOr(BitOr(BitAnd(port * 2, 15), 16), 1)

\* variant: the alignment of start is not checked
MmapArgsValid_unaligned(start, len, port) ==
    /\ len # 0
    /\ BitAnd(port, PORT_MASK) # 0
    /\ ClearLow(port, PORT_MASK) = 0

\* the validation of sys_mmap
MmapArgsValid(start, len, port) ==
    /\ len # 0
    /\ BitAnd(port, PORT_MASK) # 0
    /\ ClearLow(port, PORT_MASK) = 0
    /\ page_offset(start) = 0

\* sys_mmap: the address space and result it leaves
MmapResult(ms, start, len, port) ==
    IF ~MmapArgsValid(start, len, port)
    THEN [ms |-> ms, ret |-> -1]
    ELSE insert_framed_area(ms, start, start + len, MmapPort(port))

\* the areas whose range starts at vpn
AreasStartingAt(ms, vpn) ==
    {i \in DOMAIN ms.areas : ms.areas[i].start = vpn}

\* MapArea::unmap_one: the leaf of vpn is cleared
unmap_one(ms, vpn) ==
    [ms EXCEPT !.page_table = [@ EXCEPT ![vpn] = 0]]

\* un_map: the first area starting at vpn has that one page unmapped, 0;
\* with no such area, -1
un_map(ms, vpn) ==
    IF AreasStartingAt(ms, vpn) # {}
    THEN [ms |-> unmap_one(ms, vpn), ret |-> 0,
          absent |-> ms.page_table[vpn] = 0]
    ELSE [ms |-> ms, ret |-> -1, absent |-> FALSE]

\* the result sys_munmap keeps after one more page
MunmapStep(result, r) == r

\* the loop of sys_munmap over start_vpn..end_vpn
RECURSIVE MunmapLoop(_, _, _, _, _)
MunmapLoop(ms, vpn, end_vpn, result, absent) ==
    IF vpn >= end_vpn
    THEN [ms |-> ms, ret |-> result, absent |-> absent]
    ELSE LET u == un_map(ms, vpn)
         IN  MunmapLoop(u.ms, vpn + 1, end_vpn, MunmapStep(result, u.ret),
                        absent \/ u.absent)

\* sys_munmap: the address space and result it leaves
MunmapResult(ms, start, len) ==
    IF page_offset(start) # 0
    THEN [ms |-> ms, ret |-> -1, absent |-> FALSE]
    ELSE MunmapLoop(ms, floor(start), ceil(start + len), 0, FALSE)

\* the addresses and lengths the model draws syscall arguments from
Starts == {v * PAGE_SIZE + o : v \in 0..MaxVpn, o \in {0, 1}}
Lens == {k * PAGE_SIZE : k \in 0..MaxLenPages} \cup {1, PAGE_SIZE + 1}
\* every combination of the three permission bits, and the first bit above them
Ports == 0..(PORT_MASK + 1)
InSpace(start, len) == ceil(start + len) <= MaxVpn + 1

sys_mmap(start, len, port) ==
    /\ panic = "none"
    /\ IsSome(current)
    /\ InSpace(start, len)
    /\ LET task == Unwrap(current)
           r == MmapResult(memory_set[task], start, len, port)
       IN
       /\ memory_set' = [memory_set EXCEPT ![task] = r.ms]
       /\ last' = Event("mmap", task, <<start, len, port>>, <<r.ret>>, <<>>)
    /\ UNCHANGED <<alive, task_status, exit_code, parent, children, resume,
                   ready_queue, current, panic, adopted, x10, borrowed>>

\* Unmapping a page whose leaf is already absent is an error of the page
\* table: it is either ignored or halts the kernel.
sys_munmap(start, len) ==
    /\ panic = "none"
    /\ IsSome(current)
    /\ InSpace(start, len)
    /\ LET task == Unwrap(current)
           r == MunmapResult(memory_set[task], start, len)
       IN
       /\ memory_set' = [memory_set EXCEPT ![task] = r.ms]
       /\ last' = Event("munmap", task, <<start, len>>, <<r.ret>>, <<>>)
       /\ panic' \in (IF r.absent THEN {"none", "unmap_invalid"} ELSE {"none"})
    /\ UNCHANGED <<alive, task_status, exit_code, parent, children, resume,
                   ready_queue, current, adopted, x10, borrowed>>

\* -------------------------------------------------------- specification
\* the ids the dispatcher hands to set_current_task_info
SYSCALL_YIELD == 124
SYSCALL_FORK == 220
SYSCALL_TASK_INFO == 410
SyscallIds == {SYSCALL_YIELD, SYSCALL_FORK, SYSCALL_TASK_INFO}

\* TaskInfo of a new TCB: no syscall counted, no time
NewTaskInfo ==
    [syscall_times |-> [id \in SyscallIds |-> 0], time |-> 0, status |-> "UnInit"]

AccountingInit ==
    /\ task_info = [t \in Pids |-> NewTaskInfo]
    /\ start_time = [t \in Pids |-> 0]
    /\ end_time = [t \in Pids |-> 0]
    /\ timer = 0

\* the pid arguments of waitpid: -1 (any child), every pid, and -2
WaitPids == {-2, -1} \cup Pids

\* ------------------------------------------------------------ accounting
\* the values a read of get_time_ms may return: the timer never runs backwards
TimerReads == timer..MaxTime

\* variant: the counter is left as it was
CountAfter_kept(n) == n

\* task_info.syscall_times[syscall_id] += 1
CountAfter(n) == n + 1

\* set_current_task_info: with a current task, start_time is read from the
\* timer while it is 0, end_time is read from the timer, and the counter of
\* syscall_id, the elapsed time and the status are stored in task_info.
\* r1 and r2 are the two reads of the timer, in order.
set_current_task_info(syscall_id) ==
    IF IsSome(current)
    THEN LET tcb == Unwrap(current) IN
         \E r1 \in TimerReads : \E r2 \in r1..MaxTime :
         LET start == IF start_time[tcb] = 0 THEN r1 ELSE start_time[tcb]
             end   == r2
             time  == end - start
         IN  /\ start_time[tcb] # 0 => r1 = timer
             /\ start_time' = [start_time EXCEPT ![tcb] = start]
             /\ end_time' = [end_time EXCEPT ![tcb] = end]
             /\ task_info' = [task_info EXCEPT ![tcb] =
                    [syscall_times |->
                        [@.syscall_times EXCEPT ![syscall_id] = CountAfter(@)],
                     time |-> time,
                     status |-> task_status[tcb]]]
             /\ timer' = r2
    ELSE UNCHANGED accounting

\* the dispatcher of the trap front end: the call is recorded, then handled
syscall(syscall_id, handler) ==
    /\ set_current_task_info(syscall_id)
    /\ handler

\* get_current_task_status, get_current_task_info: copies of the current
\* task's status and of its task_info as the dispatcher has just left it
get_current_task_status ==
    IF IsSome(current) THEN <<task_status[Unwrap(current)]>> ELSE <<>>
get_current_task_info ==
    IF IsSome(current) THEN <<task_info'[Unwrap(current)]>> ELSE <<>>

\* get_pa_from_va: the translation of va by the current task's page table is
\* unwrapped; <<>> stands for the panic of that unwrap
get_pa_from_va(va) ==
    LET pte == translate(memory_set[Unwrap(current)], floor(va))
    IN  IF IsSome(pte) THEN <<va>> ELSE <<>>

\* the TaskInfo sys_task_info stores through the pointer
WrittenTaskInfo(status, info) ==
    [status |-> status, syscall_times |-> info.syscall_times, time |-> info.time]

\* sys_task_info: the pointer is translated first (a kernel panic when it is
\* not mapped), then the status and the task_info of the current task are
\* written through it and 0 returned; -1 when either is None.
sys_task_info(ti) ==
    /\ panic = "none"
    /\ IsSome(current)
    /\ LET task   == Unwrap(current)
           ti_pa  == get_pa_from_va(ti)
           t_task_status == get_current_task_status
           t_task_info   == get_current_task_info
       IN  IF ~IsSome(ti_pa)
           THEN /\ panic' = "translate_unwrap"
                /\ last' = Event("task_info", task, <<ti>>, <<>>, <<>>)
           ELSE IF ~IsSome(t_task_status) \/ ~IsSome(t_task_info)
           THEN /\ panic' = "none"
                /\ last' = Event("task_info", task, <<ti>>, <<-1>>, <<>>)
           ELSE /\ panic' = "none"
                /\ last' = Event("task_info", task, <<ti>>, <<0>>,
                      <<WrittenTaskInfo(Unwrap(t_task_status), Unwrap(t_task_info))>>)
    /\ UNCHANGED <<alive, task_status, exit_code, parent, children, x10, resume,
                   memory_set, ready_queue, current, adopted, borrowed>>

\* The accounting workload: the init process, whose image has one writable
\* data page, forks at most one child; each task yields and polls task_info, with
\* a pointer into its data page or into the unmapped page after it, while
\* the timer path may force a yield at any time.  upc[t] is what the user
\* program of t knows: the yields it has issued and the last time reported.
ImageMemorySet == MmapResult(EmptyMemorySet, 0, PAGE_SIZE, 3).ms
TiPtrs == {0, PAGE_SIZE}
NewProgram == [yields |-> 0, seen |-> <<>>]

InfoInit ==
    /\ alive = {INITPROC}
    /\ task_status = [t \in Pids |-> IF t = INITPROC THEN "Ready" ELSE "UnInit"]
    /\ exit_code = [t \in Pids |-> 0]
    /\ parent = [t \in Pids |-> <<>>]
    /\ children = [t \in Pids |-> <<>>]
    /\ x10 = [t \in Pids |-> 0]
    /\ resume = [t \in Pids |-> "trap_return"]
    /\ memory_set = [t \in Pids |-> IF t = INITPROC THEN ImageMemorySet
                                     ELSE EmptyMemorySet]
    /\ ready_queue = <<INITPROC>>
    /\ current = <<>>
    /\ panic = "none"
    /\ last = NoEvent
    /\ adopted = {}
    /\ upc = [t \in Pids |-> NewProgram]
    /\ log = <<>>
    /\ AccountingInit
    /\ borrowed = {}

InfoDispatch == run_tasks /\ UNCHANGED <<upc, log, accounting>>

InfoTimer == timer_interrupt /\ UNCHANGED <<upc, log, accounting>>

InfoFork ==
    /\ current = <<INITPROC>> /\ children[INITPROC] = <<>>
    /\ syscall(SYSCALL_FORK, sys_fork)
    /\ UNCHANGED <<upc, log>>

InfoYield ==
    /\ IsSome(current) /\ upc[Unwrap(current)].yields < MaxCalls
    /\ syscall(SYSCALL_YIELD, sys_yield)
    /\ upc' = [upc EXCEPT ![Unwrap(current)].yields = @ + 1]
    /\ UNCHANGED log

InfoPoll ==
    /\ IsSome(current)
    /\ task_info[Unwrap(current)].syscall_times[SYSCALL_TASK_INFO] < MaxCalls
    /\ \E ti \in TiPtrs : syscall(SYSCALL_TASK_INFO, sys_task_info(ti))
    /\ upc' = IF last'.ret = <<0>>
              THEN [upc EXCEPT ![Unwrap(current)].seen = <<last'.out[1].time>>]
              ELSE upc
    /\ UNCHANGED log

InfoNext == InfoDispatch \/ InfoTimer \/ InfoFork \/ InfoYield \/ InfoPoll

SpecInfo == InfoInit /\ [][InfoNext]_vars

Init ==
    /\ alive = {INITPROC}
    /\ task_status = [t \in Pids |-> IF t = INITPROC THEN "Ready" ELSE "UnInit"]
    /\ exit_code = [t \in Pids |-> 0]
    /\ parent = [t \in Pids |-> <<>>]
    /\ children = [t \in Pids |-> <<>>]
    /\ x10 = [t \in Pids |-> 0]
    /\ resume = [t \in Pids |-> "trap_return"]
    /\ memory_set = [t \in Pids |-> EmptyMemorySet]
    /\ ready_queue = <<INITPROC>>
    /\ current = <<>>
    /\ panic = "none"
    /\ last = NoEvent
    /\ adopted = {}
    /\ upc = [t \in Pids |-> "free"]
    /\ log = <<>>
    /\ AccountingInit
    /\ borrowed = {}

Next ==
    \/ run_tasks /\ UNCHANGED <<upc, log, accounting>>
    \/ sys_yield /\ UNCHANGED <<upc, log, accounting>>
    \/ timer_interrupt /\ UNCHANGED <<upc, log, accounting>>
    \/ (\E code \in ExitCodes : sys_exit(code)) /\ UNCHANGED <<upc, log, accounting>>
    \/ sys_fork /\ UNCHANGED <<upc, log, accounting>>
    \/ (\E pid \in WaitPids : sys_waitpid(pid)) /\ UNCHANGED <<upc, log, accounting>>

Spec == Init /\ [][Next]_vars

\* The same kernel under the scheduling the code guarantees: the idle loop
\* of run_tasks never stops fetching, and every dispatched task eventually
\* yields, is interrupted by the timer or exits.
Dispatch == run_tasks /\ UNCHANGED <<upc, log, accounting>>
Leave ==
    (sys_yield \/ timer_interrupt \/ \E code \in ExitCodes : sys_exit(code))
    /\ UNCHANGED <<upc, log, accounting>>

SpecFair == Init /\ [][Next]_vars /\ WF_vars(Dispatch) /\ WF_vars(Leave)

\* The address-space syscalls, issued by the init process while it runs.
MemInit ==
    /\ alive = {INITPROC}
    /\ task_status = [t \in Pids |-> IF t = INITPROC THEN "Running" ELSE "UnInit"]
    /\ exit_code = [t \in Pids |-> 0]
    /\ parent = [t \in Pids |-> <<>>]
    /\ children = [t \in Pids |-> <<>>]
    /\ x10 = [t \in Pids |-> 0]
    /\ resume = [t \in Pids |-> "trap_return"]
    /\ memory_set = [t \in Pids |-> EmptyMemorySet]
    /\ ready_queue = <<>>
    /\ current = <<INITPROC>>
    /\ panic = "none"
    /\ last = Event("run", INITPROC, <<>>, <<>>, <<>>)
    /\ adopted = {}
    /\ upc = [t \in Pids |-> "free"]
    /\ log = <<>>
    /\ AccountingInit
    /\ borrowed = {}

\* the areas the address space of the current task would hold after the call
AreasAfterMmap(start, len, port) ==
    Len(MmapResult(memory_set[Unwrap(current)], start, len, port).ms.areas)

MemNext ==
    \/ (\E start \in Starts, len \in Lens, port \in Ports :
            /\ InSpace(start, len)
            /\ AreasAfterMmap(start, len, port) <= MaxAreas
            /\ sys_mmap(start, len, port)) /\ UNCHANGED <<upc, log, accounting>>
    \/ (\E start \in Starts, len \in Lens :
            sys_munmap(start, len)) /\ UNCHANGED <<upc, log, accounting>>

SpecMem == MemInit /\ [][MemNext]_vars

\* The mapping workload: the init process first maps up to MaxMaps areas
\* read-write or read-execute, anywhere in its address space, then issues one
\* more sys_mmap with arbitrary arguments.
SetupPorts == {3, 5}

MapInit ==
    /\ alive = {INITPROC}
    /\ task_status = [t \in Pids |-> IF t = INITPROC THEN "Running" ELSE "UnInit"]
    /\ exit_code = [t \in Pids |-> 0]
    /\ parent = [t \in Pids |-> <<>>]
    /\ children = [t \in Pids |-> <<>>]
    /\ x10 = [t \in Pids |-> 0]
    /\ resume = [t \in Pids |-> "trap_return"]
    /\ memory_set = [t \in Pids |-> EmptyMemorySet]
    /\ ready_queue = <<>>
    /\ current = <<INITPROC>>
    /\ panic = "none"
    /\ last = Event("run", INITPROC, <<>>, <<>>, <<>>)
    /\ adopted = {}
    /\ upc = [t \in Pids |-> IF t = INITPROC THEN "setup" ELSE "free"]
    /\ log = <<>>
    /\ AccountingInit
    /\ borrowed = {}

MapSetup ==
    /\ IsSome(current) /\ upc[Unwrap(current)] = "setup"
    /\ \E start \in Starts, len \in Lens, port \in SetupPorts :
          /\ InSpace(start, len)
          /\ AreasAfterMmap(start, len, port) <= MaxMaps
          /\ MmapResult(memory_set[Unwrap(current)], start, len, port).ret = 0
          /\ sys_mmap(start, len, port)
    /\ UNCHANGED <<upc, log, accounting>>

MapProbe ==
    /\ IsSome(current) /\ upc[Unwrap(current)] = "setup"
    /\ \E start \in Starts, len \in Lens, port \in Ports :
          sys_mmap(start, len, port)
    /\ upc' = [upc EXCEPT ![Unwrap(current)] = "probed"]
    /\ UNCHANGED <<log, accounting>>

MapNext == MapSetup \/ MapProbe

SpecMap == MapInit /\ [][MapNext]_vars

\* The round-robin workload: INITPROC has forked N children and yielded;
\* each child issues one yield and then exits, INITPROC polls waitpid
\* and yields in turn.  `log` records the order in which children are
\* dispatched.
RECURSIVE Perms(_)
Perms(S) ==
    IF S = {} THEN {<<>>}
    ELSE UNION {{<<x>> \o q : q \in Perms(S \ {x})} : x \in S}

Workers == {t \in Pids : upc[t] \in {"start", "yielded", "exited"}}

RRInit ==
    \E K \in SUBSET (Pids \ {INITPROC}) : \E kids \in Perms(K) :
    /\ K # {}
    /\ alive = K \cup {INITPROC}
    /\ task_status = [t \in Pids |-> IF t \in alive THEN "Ready" ELSE "UnInit"]
    /\ exit_code = [t \in Pids |-> 0]
    /\ parent = [t \in Pids |-> IF t \in K THEN <<INITPROC>> ELSE <<>>]
    /\ children = [t \in Pids |-> IF t = INITPROC THEN kids ELSE <<>>]
    /\ x10 = [t \in Pids |-> 0]
    /\ resume = [t \in Pids |-> IF t = INITPROC THEN "suspend" ELSE "trap_return"]
    /\ memory_set = [t \in Pids |-> EmptyMemorySet]
    /\ ready_queue = kids \o <<INITPROC>>
    /\ current = <<>>
    /\ panic = "none"
    /\ last = Event("yield", INITPROC, <<>>, <<0>>, <<>>)
    /\ adopted = {}
    /\ upc = [t \in Pids |-> IF t \in K THEN "start"
                             ELSE IF t = INITPROC THEN "poll" ELSE "free"]
    /\ log = <<>>
    /\ AccountingInit
    /\ borrowed = {}

RRDispatch ==
    /\ run_tasks
    /\ log' = IF Head(ready_queue) \in Workers
              THEN Append(log, Head(ready_queue)) ELSE log
    /\ UNCHANGED <<upc, accounting>>

RRWorkerYield ==
    /\ IsSome(current) /\ upc[Unwrap(current)] = "start"
    /\ sys_yield
    /\ upc' = [upc EXCEPT ![Unwrap(current)] = "yielded"]
    /\ UNCHANGED <<log, accounting>>

RRWorkerExit ==
    /\ IsSome(current) /\ upc[Unwrap(current)] = "yielded"
    /\ \E code \in ExitCodes : sys_exit(code)
    /\ upc' = [upc EXCEPT ![Unwrap(current)] = "exited"]
    /\ UNCHANGED <<log, accounting>>

RRInitPoll ==
    /\ IsSome(current) /\ upc[Unwrap(current)] = "poll"
    /\ \E pid \in WaitPids : sys_waitpid(pid)
    /\ upc' = [upc EXCEPT ![Unwrap(current)] = "polled"]
    /\ UNCHANGED <<log, accounting>>

RRInitYield ==
    /\ IsSome(current) /\ upc[Unwrap(current)] = "polled"
    /\ sys_yield
    /\ upc' = [upc EXCEPT ![Unwrap(current)] = "poll"]
    /\ UNCHANGED <<log, accounting>>

RRNext == RRDispatch \/ RRWorkerYield \/ RRWorkerExit \/ RRInitPoll \/ RRInitYield

\* The idle loop runs for ever and every task runs its program on: each
\* enabled step of the workload is eventually taken.
SpecRR == RRInit /\ [][RRNext]_vars /\ WF_vars(RRNext)

\* ================================================================ claims
\* A step of the kernel is recognised by `last`: every action records itself
\* there, so a non-stuttering step whose last'.op is X is a step of X.
WaitpidStep == last'.op = "waitpid" /\ panic' = "none"
Caller == last'.task[1]
Holders(t) ==
    Cardinality({pi \in alive \X (1..(MaxPid + 1)) :
                    pi[2] \in DOMAIN children[pi[1]] /\ children[pi[1]][pi[2]] = t})

\* C1: sys_waitpid(pid, ptr) returns -1 when no child of the caller matches
\* pid (pid = -1 matches any child), -2 when a child matches but no matching
\* child is Zombie, and otherwise the pid of the first matching Zombie child
\* in children-list order, writing that child's exit code to ptr; the exit
\* code of a Zombie is the code passed to its exit.
C1_Step ==
    /\ WaitpidStep =>
         LET kids == children[Caller]
             pid  == last'.arg[1]
             r    == last'.ret[1]
             M == {i \in DOMAIN kids : pid = -1 \/ pid = kids[i]}
             Z == {i \in M : task_status[kids[i]] = "Zombie"}
         IN  /\ M = {} => r = -1 /\ last'.out = <<>>
             /\ (M # {} /\ Z = {}) => r = -2 /\ last'.out = <<>>
             /\ Z # {} => \E i \in Z : /\ \A j \in Z : i <= j
                                       /\ r = kids[i]
                                       /\ last'.out = <<exit_code[kids[i]]>>
    /\ (last'.op = "exit" /\ panic' = "none") =>
         exit_code'[Caller] = last'.arg[1]
    /\ \A t \in Pids :
         (task_status[t] = "Zombie" /\ task_status'[t] = "Zombie")
            => exit_code'[t] = exit_code[t]

\* C1: every step gives waitpid the result and exit code described above
C1_WaitpidResult == [][C1_Step]_vars

\* C1 witness: waitpid(-1) has returned a Zombie child with a non-zero exit
\* code while another Zombie child of the caller is still in the list
C1_Witness ==
    /\ last.op = "waitpid" /\ last.arg = <<-1>> /\ panic = "none"
    /\ Len(last.out) = 1 /\ last.out[1] # 0
    /\ \E z \in Range(children[last.task[1]]) : task_status[z] = "Zombie"

\* the elaboration shared by the original and the amended C2
C2_WaitpidRemoval ==
    WaitpidStep =>
       LET c == Caller
           r == last'.ret[1]
       IN  IF r >= 0
           THEN /\ task_status[r] = "Zombie"
                /\ \E i \in DOMAIN children[c] :
                      /\ children[c][i] = r
                      /\ children'[c] = [k \in 1..(Len(children[c]) - 1) |->
                                IF k < i THEN children[c][k] ELSE children[c][k + 1]]
                /\ \A p \in Pids \ {c} : children'[p] = children[p]
           ELSE children' = children /\ alive' = alive

\* C2 as stated: a Zombie TCB leaves a children list only through a
\* successful waitpid that returns its pid (and such a waitpid removes just
\* that child, a failing one nothing).
C2_Original_Step ==
    /\ C2_WaitpidRemoval
    /\ \A t \in Pids, p \in Pids :
         (task_status[t] = "Zombie" /\ t \in Range(children[p])
            /\ t \notin Range(children'[p]))
         => (last'.op = "waitpid" /\ last'.ret = <<t>>)

\* C2 as stated: only a successful waitpid takes a Zombie off a children list
C2_Original == [][C2_Original_Step]_vars

\* C2 amended: a Zombie TCB is reaped, that is leaves the process tree (all
\* the children lists), only through a successful waitpid that returns its
\* pid, and is then dropped; an exit moves the Zombie children of the exiting
\* task to INITPROC's list instead.  A successful waitpid removes just the
\* child it returns, a failing one removes nothing, and a waitpid for a pid
\* that no TCB holds (a reaped pid, until a fork hands it out again) returns -1.
C2_Amended_Step ==
    /\ C2_WaitpidRemoval
    /\ \A t \in Pids :
         (task_status[t] = "Zombie" /\ Holders(t) > 0)
         => \/ (\E p \in alive' : t \in Range(children'[p])) /\ t \in alive'
            \/ /\ last'.op = "waitpid" /\ last'.ret = <<t>>
               /\ t \notin alive'
               /\ \A p \in Pids : t \notin Range(children'[p])
    /\ \A t \in Pids :
         (t \notin alive /\ t \in alive') => (last'.op = "fork" /\ last'.ret = <<t>>)
    /\ (WaitpidStep /\ last'.arg[1] >= 0 /\ last'.arg[1] \notin alive)
         => last'.ret = <<-1>>

\* C2 amended: only a successful waitpid takes a Zombie out of the process
\* tree, once, and its pid then matches no child until a fork reuses it
C2_ReapedOnce == [][C2_Amended_Step]_vars

\* C2 witness: a waitpid has reaped one child and the caller still has another
C2_Witness ==
    /\ last.op = "waitpid" /\ panic = "none"
    /\ Len(last.ret) = 1 /\ last.ret[1] >= 0
    /\ last.ret[1] \notin alive
    /\ children[last.task[1]] # <<>>

\* C3: a Zombie TCB is held by exactly one children list and by nothing else
\* (not the ready queue, not the Processor), so the strong-count assertion of
\* sys_waitpid never fails, also for the Zombies an exit moved to INITPROC.
C3_ZombieHeldOnce ==
    /\ panic # "assert_strong_count"
    /\ \A t \in alive :
         task_status[t] = "Zombie" =>
            /\ \A i \in DOMAIN ready_queue : ready_queue[i] # t
            /\ current # <<t>>
            /\ Holders(t) = 1

\* C3 witness: INITPROC has reaped a child that an exit had handed to it
C3_Witness ==
    /\ last.op = "waitpid" /\ panic = "none"
    /\ last.task = <<INITPROC>>
    /\ Len(last.ret) = 1 /\ last.ret[1] >= 0
    /\ last.ret[1] \in adopted /\ last.ret[1] \notin alive

\* C4: when a task other than INITPROC exits, each of its children has its
\* parent back-reference set to INITPROC and is in INITPROC's children list,
\* and the exiting task's own list is empty, and stays empty while the
\* Zombie exists.
C4_Step ==
    /\ (last'.op = "exit" /\ Caller # INITPROC) =>
          /\ \A ch \in Range(children[Caller]) :
                /\ parent'[ch] = <<INITPROC>>
                /\ \E i \in DOMAIN children'[INITPROC] : children'[INITPROC][i] = ch
          /\ children'[Caller] = <<>>
    /\ \A t \in Pids : task_status[t] = "Zombie" => children'[t] = <<>>

\* C4: every exit hands the children to INITPROC and empties its own list
C4_Reparenting == [][C4_Step]_vars

\* C4 witness: an exit has just moved a child, now a child of INITPROC
C4_Witness ==
    /\ last.op = "exit" /\ last.out # <<>>
    /\ parent[last.out[1]] = <<INITPROC>>
    /\ task_status[last.task[1]] = "Zombie"

\* C5: exit(code) makes the task a Zombie holding code; a Zombie stays a
\* Zombie with the same exit code, outside the ready queue and the Processor,
\* until a waitpid reaps it, so no task returns into sys_exit.
C5_Step ==
    /\ (last'.op = "exit" /\ Caller # INITPROC) =>
          /\ task_status'[Caller] = "Zombie"
          /\ exit_code'[Caller] = last'.arg[1]
    /\ \A t \in Pids :
         task_status[t] = "Zombie" =>
            \/ /\ task_status'[t] = "Zombie"
               /\ exit_code'[t] = exit_code[t]
            \/ /\ last'.op = "waitpid" /\ last'.ret = <<t>>
               /\ t \notin alive'
    /\ \A t \in Pids :
         task_status'[t] = "Zombie" =>
            /\ \A i \in DOMAIN ready_queue' : ready_queue'[i] # t
            /\ current' # <<t>>
    /\ panic' # "unreachable_in_sys_exit"

\* C5: every step leaves a Zombie a Zombie, with its exit code, off the CPU
C5_ZombieTerminal == [][C5_Step]_vars

\* C5 witness: another task has been dispatched while a Zombie with a
\* non-zero exit code waits to be reaped
C5_Witness ==
    /\ last.op = "run" /\ panic = "none"
    /\ \E t \in alive : task_status[t] = "Zombie" /\ exit_code[t] # 0

\* C6: while the kernel runs, every TCB has one of the four statuses, at most
\* one TCB is Running, and a Running TCB is the Processor's current task.
C6_StatusInvariant ==
    panic = "none" =>
       /\ \A t \in alive : task_status[t] \in TaskStatus
       /\ Cardinality({t \in alive : task_status[t] = "Running"}) <= 1
       /\ \A t \in alive : task_status[t] = "Running" => current = <<t>>

\* C6 witness: a Running, a Ready and a Zombie TCB exist together
C6_Witness ==
    /\ panic = "none"
    /\ \E t \in alive : task_status[t] = "Running"
    /\ \E t \in alive : task_status[t] = "Ready"
    /\ \E t \in alive : task_status[t] = "Zombie"

\* C8: sys_fork returns the child's pid, a pid no live TCB holds; the child's
\* saved a0 is 0, it is Ready at the tail of the ready queue, in the caller's
\* children list, with its parent back-reference at the caller.
C8_Step ==
    last'.op = "fork" =>
       LET n == last'.ret[1] IN
       /\ n \notin alive /\ n \in alive'
       /\ x10'[n] = 0
       /\ task_status'[n] = "Ready"
       /\ ready_queue' = ready_queue \o <<n>>
       /\ \E i \in DOMAIN children'[Caller] : children'[Caller][i] = n
       /\ parent'[n] = <<Caller>>
       /\ \A i \in DOMAIN ready_queue : ready_queue[i] # n

\* C8: every fork step returns the new pid and links and queues the child
C8_Fork == [][C8_Step]_vars

\* C8 witness: a fork has queued its child, a0 = 0, behind another ready task
C8_Witness ==
    /\ last.op = "fork"
    /\ Len(ready_queue) >= 2
    /\ x10[last.ret[1]] = 0
    /\ ready_queue[Len(ready_queue)] = last.ret[1]

\* C7: with N tasks that each yield once and then exit, the N tasks are all
\* dispatched, and have reached their yield, before any of them is
\* dispatched a second time, and the second round has the order of the first.
C7_Order ==
    LET N == Cardinality(Workers) IN
    /\ Len(log) <= 2 * N
    /\ \A i \in DOMAIN log, j \in DOMAIN log : (i < j /\ j <= N) => log[i] # log[j]
    /\ \A i \in DOMAIN log : i > N => log[i] = log[i - N]
    /\ Len(log) > N => \A t \in Workers : upc[t] # "start"
    /\ (\A t \in Workers : upc[t] = "exited") => Len(log) = 2 * N

C7_AllDone ==
    /\ \A t \in Workers : upc[t] = "exited"
    /\ Len(log) = 2 * Cardinality(Workers)

TargetPages(start, len) == {v \in 0..MaxVpn : v >= start \div PAGE_SIZE
                               /\ v * PAGE_SIZE < start + len}
Covered(ms, v) == \E i \in DOMAIN ms.areas : ms.areas[i].start <= v /\ v < ms.areas[i].end

\* C9: munmap(start, len) right after a successful mmap(start, len, port) over
\* the same range returns 0 and leaves every page of the range untranslated.
C9_Step ==
    (/\ last.op = "mmap" /\ last.ret = <<0>>
     /\ last'.op = "munmap" /\ panic' = "none"
     /\ last'.arg = <<last.arg[1], last.arg[2]>>)
    => /\ last'.ret = <<0>>
       /\ \A v \in TargetPages(last.arg[1], last.arg[2]) :
             memory_set'[Caller].page_table[v] = 0

\* C9: every munmap that follows a successful mmap of the same range
\* returns 0 and untranslates the range
C9_MunmapAfterMmap == [][C9_Step]_vars

\* C10: for a page-aligned start, munmap returns 0 only if every targeted
\* page had a mapped area and is unmapped afterwards, and -1 if some targeted
\* page has no mapped area; a start that is not page-aligned returns -1 and
\* unmaps nothing.
C10_Step ==
    (last'.op = "munmap" /\ panic' = "none") =>
       LET start == last'.arg[1]
           len   == last'.arg[2]
           ms    == memory_set[Caller]
           T     == TargetPages(start, len)
       IN  IF start % PAGE_SIZE = 0
           THEN /\ last'.ret = <<0>> =>
                     \A v \in T : /\ Covered(ms, v)
                                  /\ memory_set'[Caller].page_table[v] = 0
                /\ (\E v \in T : ~Covered(ms, v)) => last'.ret = <<-1>>
           ELSE last'.ret = <<-1>> /\ memory_set' = memory_set

\* C10: every munmap step returns 0 or -1 as described above
C10_MunmapResult == [][C10_Step]_vars

\* a step of sys_mmap and its arguments
MmapStep == last'.op = "mmap"
MmapStart == last'.arg[1]
MmapLen == last'.arg[2]
MmapPortArg == last'.arg[3]
Bit(n, k) == (n \div (2 ^ k)) % 2

\* C11: sys_mmap returns -1 and leaves the areas and translations of the
\* caller unchanged when len is 0, or the low 3 bits of port are all zero, or
\* a bit of port above the low 3 is set, or start is not page-aligned.
C11_Step ==
    (/\ MmapStep
     /\ \/ MmapLen = 0
        \/ MmapPortArg % 8 = 0
        \/ MmapPortArg >= 8
        \/ MmapStart % PAGE_SIZE # 0)
    => /\ last'.ret = <<-1>>
       /\ memory_set' = memory_set
       /\ panic' = "none"

C12_Step ==
    (/\ MmapStep
     /\ MmapStart % PAGE_SIZE = 0 /\ MmapLen # 0 /\ MmapPortArg \in 1..7
     /\ \A v \in TargetPages(MmapStart, MmapLen) : ~Covered(memory_set[Caller], v))
    => /\ last'.ret = <<0>>
       /\ panic' = "none"
       /\ \A v \in TargetPages(MmapStart, MmapLen) :
             /\ translate(memory_set'[Caller], v) # <<>>
             /\ LET pte == memory_set'[Caller].page_table[v] IN
                /\ Bit(pte, 0) = 1
                /\ Bit(pte, 1) = Bit(MmapPortArg, 0)
                /\ Bit(pte, 2) = Bit(MmapPortArg, 1)
                /\ Bit(pte, 3) = Bit(MmapPortArg, 2)
                /\ Bit(pte, 4) = 1
                /\ pte < 32
       /\ \A v \in (0..MaxVpn) \ TargetPages(MmapStart, MmapLen) :
             memory_set'[Caller].page_table[v] = memory_set[Caller].page_table[v]

\* C12: every valid, non-overlapping sys_mmap maps its range with the
\* permissions of its port
C12_MmapMaps == [][C12_Step]_vars

\* C12 witness: a read-execute mapping of two pages whose length is not a
\* multiple of the page size, next to an area mapped before
C12_Witness ==
    /\ last.op = "mmap" /\ last.ret = <<0>>
    /\ last.arg[3] = 5 /\ last.arg[2] = PAGE_SIZE + 1
    /\ Len(memory_set[last.task[1]].areas) = 2
    /\ memory_set[last.task[1]].page_table[last.arg[1] \div PAGE_SIZE + 1] = 27

\* the kind of step the dispatcher records under a syscall id
OpOf(id) == IF id = SYSCALL_YIELD THEN "yield"
            ELSE IF id = SYSCALL_FORK THEN "fork" ELSE "task_info"
Issued(t, id) == last'.op = OpOf(id) /\ last'.task = <<t>>
PollStep == last'.op = "task_info" /\ last'.ret = <<0>>

\* C13: each syscall counter of a task goes up by exactly one per syscall of
\* that id the task issues and is changed by nothing else (not by another
\* task's syscalls, not by being suspended and resumed), so that a task
\* which has issued k yields is told syscall_times[yield] = k by task_info.
C13_Step ==
    /\ \A t \in Pids, id \in SyscallIds :
          task_info'[t].syscall_times[id] =
             task_info[t].syscall_times[id] + (IF Issued(t, id) THEN 1 ELSE 0)
    /\ PollStep =>
          last'.out[1].syscall_times[SYSCALL_YIELD] = upc[Caller].yields

\* C13: every step counts the syscall it is, for its caller only, and every
\* poll reports the number of yields its caller has issued
C13_SyscallCounts == [][C13_Step]_vars

\* C13 witness: the child is told of two yields while the init process has
\* issued another number of them
C13_Witness ==
    /\ last.op = "task_info" /\ last.ret = <<0>>
    /\ last.task # <<INITPROC>>
    /\ last.out[1].syscall_times[SYSCALL_YIELD] = 2
    /\ upc[INITPROC].yields = 1

\* C14: with a timer that never runs backwards and may read 0, a poll of
\* task_info never reports a smaller time than an earlier poll of the same
\* task did.
C14_Step ==
    (PollStep /\ upc[Caller].seen # <<>>)
    => last'.out[1].time >= upc[Caller].seen[1]

\* C14: the time reported to a task never decreases from poll to poll
C14_TimeMonotone == [][C14_Step]_vars

\* C15: sys_task_info returns -1, without a panic and without a write, when
\* there is no current task, and otherwise writes the status, counters and
\* time of the current task and returns 0.
C15_Step ==
    last'.op = "task_info" =>
       IF current = <<>>
       THEN last'.ret = <<-1>> /\ last'.out = <<>> /\ panic' = "none"
       ELSE /\ last'.ret = <<0>>
            /\ panic' = "none"
            /\ last'.out = <<[status |-> task_status[Unwrap(current)],
                              syscall_times |-> task_info'[Unwrap(current)].syscall_times,
                              time |-> task_info'[Unwrap(current)].time]>>

\* C15: every sys_task_info step returns -1 or 0 as described, never a panic
C15_TaskInfoResult == [][C15_Step]_vars

\* C16: a yield (voluntary or forced) leaves the caller Ready at the tail of
\* the ready queue, the tasks queued before it in their order, and the
\* Processor without a current task; an exit leaves the ready queue as it
\* was, without the caller.
C16_Step ==
    /\ last'.op \in {"yield", "timer"} =>
          /\ task_status'[Caller] = "Ready"
          /\ ready_queue' = ready_queue \o <<Caller>>
          /\ \A i \in DOMAIN ready_queue : ready_queue[i] # Caller
          /\ current' = <<>>
    /\ last'.op = "exit" =>
          /\ ready_queue' = ready_queue
          /\ \A i \in DOMAIN ready_queue' : ready_queue'[i] # Caller
          /\ current' = <<>>

\* C16: every yield re-enqueues its caller at the tail, every exit does not
C16_Requeue == [][C16_Step]_vars

\* C16 witness: a task has yielded behind another queued task after a
\* task's exit left the queue alone
C16_Witness ==
    /\ last.op = "yield" /\ panic = "none"
    /\ Len(ready_queue) >= 2
    /\ ready_queue[Len(ready_queue)] = last.task[1]
    /\ \E z \in alive : task_status[z] = "Zombie"

\* a dispatch: the idle loop hands the Processor a task
DispatchStep == current = <<>> /\ current' # <<>>

\* C17, first in first out: a dispatch takes the head of the ready queue and
\* moves every other queued task one place up, and no other step moves a
\* queued task, so a task queued behind m tasks is dispatched after exactly
\* those m tasks.
C17_FifoStep ==
    \A i \in DOMAIN ready_queue :
       IF DispatchStep
       THEN IF i = 1 THEN current' = <<ready_queue[i]>>
            ELSE i - 1 \in DOMAIN ready_queue' /\ ready_queue'[i - 1] = ready_queue[i]
       ELSE i \in DOMAIN ready_queue' /\ ready_queue'[i] = ready_queue[i]

\* C17 as stated: every queued task is eventually dispatched, in queue order
C17_Original ==
    /\ [][C17_FifoStep]_vars
    /\ \A t \in Pids : (\E i \in DOMAIN ready_queue : ready_queue[i] = t)
                          ~> (current = <<t>>)

\* C17 amended: while every dispatched task eventually yields or exits, every
\* queued task is eventually dispatched, in queue order and whatever the
\* other tasks fork, unless the kernel halts first: the exit of the init
\* process (pid IDLE_PID) shuts the kernel down with the ready queue as it is.
C17_NoStarvation ==
    /\ [][C17_FifoStep]_vars
    /\ \A t \in Pids : (\E i \in DOMAIN ready_queue : ready_queue[i] = t)
                          ~> (current = <<t>> \/ panic # "none")

\* C17 witness: a forked child has been dispatched ahead of two queued tasks
C17_Witness ==
    /\ last.op = "run" /\ panic = "none"
    /\ IsSome(current) /\ current # <<INITPROC>>
    /\ Len(ready_queue) = 2

\* C18: every TCB other than the init process that has not been reaped is in
\* exactly one children list, exactly once, and that list is the one of the
\* TCB its parent back-reference designates; no TCB is in its own children
\* list and the init process is in none.
C18_ProcessTree ==
    /\ \A t \in alive \ {INITPROC} :
          /\ Holders(t) = 1
          /\ IsSome(parent[t])
          /\ Unwrap(parent[t]) \in alive
          /\ \E i \in DOMAIN children[Unwrap(parent[t])] :
                children[Unwrap(parent[t])][i] = t
    /\ \A p \in alive : \A i \in DOMAIN children[p] :
          /\ children[p][i] # p
          /\ children[p][i] # INITPROC
          /\ children[p][i] \in alive

\* C18 witness: a child that an exit handed to the init process is still
\* running or ready after the init process has reaped its first parent
C18_Witness ==
    /\ last.op = "waitpid" /\ panic = "none"
    /\ Len(last.ret) = 1 /\ last.ret[1] >= 0
    /\ \E t \in alive \cap adopted :
          /\ task_status[t] \in {"Ready", "Running"}
          /\ parent[t] = <<INITPROC>>

\* C19: every TCB in the ready queue is Ready and is there once, the
\* Processor's current task is not in the ready queue, and every Ready TCB
\* is in the ready queue.
C19_ReadyQueue ==
    /\ \A i \in DOMAIN ready_queue :
          /\ ready_queue[i] \in alive
          /\ task_status[ready_queue[i]] = "Ready"
          /\ \A j \in DOMAIN ready_queue : ready_queue[i] = ready_queue[j] => i = j
          /\ current # <<ready_queue[i]>>
    /\ \A t \in alive :
          task_status[t] = "Ready" => \E i \in DOMAIN ready_queue : ready_queue[i] = t

\* C19 witness: two Ready tasks are queued, a Zombie waits to be reaped and
\* the Processor has just been left by a forced yield
C19_Witness ==
    /\ last.op = "timer" /\ panic = "none"
    /\ Len(ready_queue) = 2 /\ current = <<>>
    /\ \E z \in alive : task_status[z] = "Zombie"

\* C20, step by step: an exit that reaches its borrows holds the exiting
\* task's inner, INITPROC's and one child's at a time, three different TCBs;
\* a waitpid holds the caller's inner and borrows those of the children it
\* visits, none of which is the caller; and a step that hands control on by
\* schedule leaves nothing borrowed.
C20_Step ==
    /\ (last'.op = "exit" /\ panic' # "all_applications_completed") =>
          /\ Caller # INITPROC
          /\ \A c \in Range(children[Caller]) : c # Caller /\ c # INITPROC
          /\ borrowed = {}
    /\ last'.op = "waitpid" =>
          /\ \A c \in Range(children[Caller]) : c # Caller
          /\ borrowed = {}
    /\ last'.op \in {"yield", "timer", "exit"} => borrowed' = {}

\* C20: no step borrows a TCB's inner that is already borrowed (the panic of
\* the exclusive-access cell never happens), and every inner is released
\* when control is switched away
C20_ExclusiveAccess ==
    /\ [](panic # "already_borrowed" /\ borrowed = {})
    /\ [][C20_Step]_vars

\* C20 witness: a task with a child has exited while the init process had a
\* child of its own, so that the exit held three inners at once
C20_Witness ==
    /\ last.op = "exit" /\ panic = "none"
    /\ last.out # <<>>
    /\ Len(children[INITPROC]) >= 2
    /\ borrowed = {}

====
